---- MODULE Spec2Model ----
(***************************************************************************)
(* Model of app.py of MarkItDownServer: the POST /process_file handler,   *)
(* its upload validation, its temp-file lifecycle, the converter call and  *)
(* the (configured but never attached) rate limiter.                       *)
(*                                                                         *)
(* Strings are sequences of one-character strings, so that rsplit, lower   *)
(* and Path.suffix are computed rather than assumed.                       *)
(***************************************************************************)
EXTENDS Integers, Sequences, FiniteSets, TLC

\* ------------------------------------------------------------- bounds
\* Number of requests that are handled (possibly concurrently).
NumReq == 2
\* Longest file name drawn by the single-request specification SpecV.
MaxNameLen == 5
\* N of the configured limit "N/minute" (scenario E of the spec uses 1).
RateLimitN == 1

Requests == 1..NumReq
Clients == {"10.0.0.1", "10.0.0.2"}
\* Characters file names are drawn from.
Alphabet == {"t", "x", "T", ".", "/"}

\* ------------------------------------------------------------- constants
ALLOWED_EXTENSIONS ==
    { <<"d","o","c">>, <<"d","o","c","x">>, <<"p","p","t">>, <<"p","p","t","x">>,
      <<"p","d","f">>, <<"x","l","s">>, <<"x","l","s","x">>, <<"o","d","t">>,
      <<"o","d","s">>, <<"o","d","p">>, <<"t","x","t">>,
      <<"j","p","g">>, <<"j","p","e","g">>, <<"p","n","g">>, <<"g","i","f">>,
      <<"b","m","p">>, <<"t","i","f","f">>, <<"w","e","b","p">>, <<"s","v","g">>,
      <<"m","p","3">>, <<"w","a","v">>, <<"f","l","a","c">>, <<"a","a","c">>,
      <<"o","g","g">>, <<"m","4","a">>, <<"w","m","a">> }

MAX_FILE_SIZE == 50 * 1024 * 1024

\* ------------------------------------------------------------- strings
\* str.lower() on one character of the alphabet.
LowerChar(c) == IF c = "T" THEN "t" ELSE c

\* str.lower()
Lower(s) == [i \in 1..Len(s) |-> LowerChar(s[i])]

\* c in s
Contains(s, c) == \E i \in 1..Len(s) : s[i] = c

\* 1-based position of the last occurrence of c in s, 0 when there is none
\* (str.rfind shifted by one).
RFind(s, c) ==
    IF Contains(s, c)
    THEN CHOOSE i \in 1..Len(s) : s[i] = c /\ \A j \in (i+1)..Len(s) : s[j] # c
    ELSE 0

\* s.rsplit(c, 1)[1] for s that contains c: what follows the last c.
RSplitLast(s, c) == SubSeq(s, RFind(s, c) + 1, Len(s))

\* PurePath.name: the final path component.
PathName(s) == SubSeq(s, RFind(s, "/") + 1, Len(s))

\* PurePath.suffix: name[i:] when the last dot of the name is neither its
\* first nor its last character, else the empty string.
PathSuffix(s) ==
    LET name == PathName(s)
        i == RFind(name, ".") - 1
    IN  IF 0 < i /\ i < Len(name) - 1 THEN SubSeq(name, i + 1, Len(name)) ELSE <<>>

\* ------------------------------------------------------------- uploads
\* An UploadFile: filename is None (has_filename FALSE) or a string; size is
\* the length of the body that file.read() returns.
Upload(has, name, size) == [has_filename |-> has, filename |-> name, size |-> size]

\* `not file.filename`: None or the empty string.
NoFilename(f) == ~f.has_filename \/ f.filename = <<>>

\* Variant of allowed_file that compares the extension without lower().
allowed_file_nolower(f) ==
    /\ ~NoFilename(f)
    /\ Contains(f.filename, ".")
    /\ RSplitLast(f.filename, ".") \in ALLOWED_EXTENSIONS

\* Lines 107-118: a non-empty name with a "." whose lower-cased part after
\* the last "." is in ALLOWED_EXTENSIONS.
allowed_file(f) ==
    /\ ~NoFilename(f)
    /\ Contains(f.filename, ".")
    /\ Lower(RSplitLast(f.filename, ".")) \in ALLOWED_EXTENSIONS

\* All strings over the alphabet of length at most n.
Strings(n) == UNION { [1..k -> Alphabet] : k \in 0..n }

\* Inputs of the single-request specification: every name up to MaxNameLen.
AllUploadNames ==
    {Upload(FALSE, <<>>, 1)} \cup
    { Upload(TRUE, s, 1) : s \in Strings(MaxNameLen) }

\* Inputs of the concurrent specification: one name per validation case.
FewUploadNames ==
    { Upload(FALSE, <<>>, 1),
      Upload(TRUE, <<"t","x","t">>, 1),
      Upload(TRUE, <<"t",".","x">>, 1),
      Upload(TRUE, <<"t",".","T","X","T">>, 1),
      Upload(TRUE, <<".","t","x","t">>, 1) }

Sizes == {0, 1, MAX_FILE_SIZE, MAX_FILE_SIZE + 1}

\* ------------------------------------------------------------- state
VARIABLES
    rate_limit_enabled, \* ENABLE_RATE_LIMIT and RATE_LIMIT_AVAILABLE
    pc,                 \* position of each request in process_file
    file,               \* the UploadFile of each request
    client,             \* the remote address of each request
    prior,              \* requests the same client made before this one
    hits,               \* requests received so far, per client address
    temp_file_path,     \* the local variable temp_file_path
    pending,            \* the response process_file has decided to return
    response,           \* the response process_file returned
    fs,                 \* the temp directory: existing path -> bytes written
                        \* and the request that created the file
    created,            \* temp files each request created
    converts,           \* calls of convert_to_md per request
    removes             \* calls of os.remove per request

vars == <<rate_limit_enabled, pc, file, client, prior, hits, temp_file_path,
          pending, response, fs, created, converts, removes>>

\* temp_file_path = None
None == [id |-> 0, suffix |-> <<>>]
TempPath(n, sfx) == [id |-> n, suffix |-> sfx]

NoResponse == [status |-> 0, body |-> "none"]
JSONResponse(status, body) == [status |-> status, body |-> body]

Exists(p) == p \in DOMAIN fs

\* fs with p created or rewritten by request r to hold n bytes
FsPut(p, n, r) ==
    [q \in (DOMAIN fs) \cup {p} |-> IF q = p THEN [bytes |-> n, owner |-> r] ELSE fs[q]]
\* fs without p
FsRemove(p) == [q \in (DOMAIN fs) \ {p} |-> fs[q]]

Init ==
    /\ rate_limit_enabled \in BOOLEAN
    /\ pc = [r \in Requests |-> "idle"]
    /\ file = [r \in Requests |-> Upload(FALSE, <<>>, 0)]
    /\ client = [r \in Requests |-> "10.0.0.1"]
    /\ prior = [r \in Requests |-> 0]
    /\ hits = [c \in Clients |-> 0]
    /\ temp_file_path = [r \in Requests |-> None]
    /\ pending = [r \in Requests |-> NoResponse]
    /\ response = [r \in Requests |-> NoResponse]
    /\ fs = << >>
    /\ created = [r \in Requests |-> {}]
    /\ converts = [r \in Requests |-> 0]
    /\ removes = [r \in Requests |-> 0]

\* ------------------------------------------------------------- process_file
\* A request is routed to process_file. The Limiter of lines 61-64 is stored
\* in app.state only: the route carries no limit decorator and no limiter
\* middleware is added, so nothing consults it before the handler runs.
Arrive(r, names) ==
    /\ pc[r] = "idle"
    /\ \E u \in names, n \in Sizes, c \in Clients :
         /\ file' = [file EXCEPT ![r] = Upload(u.has_filename, u.filename, n)]
         /\ client' = [client EXCEPT ![r] = c]
         /\ prior' = [prior EXCEPT ![r] = hits[c]]
         /\ hits' = [hits EXCEPT ![c] = @ + 1]
    /\ temp_file_path' = [temp_file_path EXCEPT ![r] = None]
    /\ pc' = [pc EXCEPT ![r] = "validate"]
    /\ UNCHANGED <<rate_limit_enabled, pending, response, fs, created, converts, removes>>

\* Lines 186-197: the two checks that run before the try block.
ValidateName(r) ==
    /\ pc[r] = "validate"
    /\ IF NoFilename(file[r])
       THEN /\ response' = [response EXCEPT ![r] = JSONResponse(400, "Filename is required")]
            /\ pc' = [pc EXCEPT ![r] = "done"]
       ELSE IF ~allowed_file(file[r])
       THEN /\ response' = [response EXCEPT ![r] = JSONResponse(400, "File type not allowed")]
            /\ pc' = [pc EXCEPT ![r] = "done"]
       ELSE /\ response' = response
            /\ pc' = [pc EXCEPT ![r] = "read"]
    /\ UNCHANGED <<rate_limit_enabled, file, client, prior, hits, temp_file_path,
                   pending, fs, created, converts, removes>>

\* Variant of ReadBody without the emptiness check of lines 209-214.
ReadBodyNoEmpty(r) ==
    /\ pc[r] = "read"
    /\ IF file[r].size > MAX_FILE_SIZE
       THEN /\ pending' = [pending EXCEPT ![r] = JSONResponse(413, "File too large")]
            /\ pc' = [pc EXCEPT ![r] = "finally"]
       ELSE /\ pending' = pending
            /\ pc' = [pc EXCEPT ![r] = "create"]
    /\ UNCHANGED <<rate_limit_enabled, file, client, prior, hits, temp_file_path,
                   response, fs, created, converts, removes>>

\* Lines 200-214: file.read() returns the body, then the size checks.
ReadBody(r) ==
    /\ pc[r] = "read"
    /\ IF file[r].size > MAX_FILE_SIZE
       THEN /\ pending' = [pending EXCEPT ![r] = JSONResponse(413, "File too large")]
            /\ pc' = [pc EXCEPT ![r] = "finally"]
       ELSE IF file[r].size = 0
       THEN /\ pending' = [pending EXCEPT ![r] = JSONResponse(400, "File is empty")]
            /\ pc' = [pc EXCEPT ![r] = "finally"]
       ELSE /\ pending' = pending
            /\ pc' = [pc EXCEPT ![r] = "create"]
    /\ UNCHANGED <<rate_limit_enabled, file, client, prior, hits, temp_file_path,
                   response, fs, created, converts, removes>>

\* The except clause of lines 231-233: any exception of the try block becomes
\* a 500 whose body is str(e); the finally block runs next.
Except(r, e) ==
    /\ pending' = [pending EXCEPT ![r] = JSONResponse(500, e)]
    /\ pc' = [pc EXCEPT ![r] = "finally"]

\* Line 200: file.read() raises.
ReadFail(r) ==
    /\ pc[r] = "read"
    /\ Except(r, "read error")
    /\ UNCHANGED <<rate_limit_enabled, file, client, prior, hits, temp_file_path,
                   response, fs, created, converts, removes>>

\* Lines 217-220: NamedTemporaryFile(delete=False, suffix=Path(filename).suffix)
\* creates an empty file under a name no existing file has.
CreateTemp(r) ==
    /\ pc[r] = "create"
    /\ \E n \in Requests :
         LET p == TempPath(n, PathSuffix(file[r].filename)) IN
         /\ \A q \in DOMAIN fs : q.id # n
         /\ fs' = FsPut(p, 0, r)
         /\ created' = [created EXCEPT ![r] = @ \cup {p}]
    /\ pc' = [pc EXCEPT ![r] = "write"]
    /\ UNCHANGED <<rate_limit_enabled, file, client, prior, hits, temp_file_path,
                   pending, response, converts, removes>>

\* Lines 217-220: NamedTemporaryFile raises; no file was created.
CreateFail(r) ==
    /\ pc[r] = "create"
    /\ Except(r, "create error")
    /\ UNCHANGED <<rate_limit_enabled, file, client, prior, hits, temp_file_path,
                   response, fs, created, converts, removes>>

\* The one temp file request r created and has not yet named in
\* temp_file_path (the object temp_file of the with block).
OpenTemp(r) == CHOOSE p \in created[r] : TRUE

\* Lines 221-223: the write succeeds, temp_file_path is assigned and the with
\* block closes the file.
WriteTemp(r) ==
    /\ pc[r] = "write"
    /\ fs' = FsPut(OpenTemp(r), file[r].size, r)
    /\ temp_file_path' = [temp_file_path EXCEPT ![r] = OpenTemp(r)]
    /\ pc' = [pc EXCEPT ![r] = "convert"]
    /\ UNCHANGED <<rate_limit_enabled, file, client, prior, hits, pending, response,
                   created, converts, removes>>

\* Line 221: temp_file.write raises (disk full, I/O error). The with block
\* closes the file, which delete=False leaves on disk, and line 222 never
\* runs: temp_file_path is still None.
WriteFail(r) ==
    /\ pc[r] = "write"
    /\ Except(r, "write error")
    /\ UNCHANGED <<rate_limit_enabled, file, client, prior, hits, temp_file_path,
                   response, fs, created, converts, removes>>

\* Lines 220-223: the write is buffered and the close on leaving the with
\* block raises; temp_file_path was assigned on line 222.
CloseFail(r) ==
    /\ pc[r] = "write"
    /\ temp_file_path' = [temp_file_path EXCEPT ![r] = OpenTemp(r)]
    /\ Except(r, "close error")
    /\ UNCHANGED <<rate_limit_enabled, file, client, prior, hits,
                   response, fs, created, converts, removes>>

\* Line 226: convert_to_md(temp_file_path) is called.
ConvertCall(r) ==
    /\ pc[r] = "convert"
    /\ converts' = [converts EXCEPT ![r] = @ + 1]
    /\ pc' = [pc EXCEPT ![r] = "converting"]
    /\ UNCHANGED <<rate_limit_enabled, file, client, prior, hits, temp_file_path,
                   pending, response, fs, created, removes>>

\* Lines 226-229: the converter returns text; the 200 response is built.
ConvertReturn(r) ==
    /\ pc[r] = "converting"
    /\ pending' = [pending EXCEPT ![r] = JSONResponse(200, "markdown")]
    /\ pc' = [pc EXCEPT ![r] = "finally"]
    /\ UNCHANGED <<rate_limit_enabled, file, client, prior, hits, temp_file_path,
                   response, fs, created, converts, removes>>

\* Lines 226, 231-233: the converter raises.
ConvertRaise(r) ==
    /\ pc[r] = "converting"
    /\ Except(r, "convert error")
    /\ UNCHANGED <<rate_limit_enabled, file, client, prior, hits, temp_file_path,
                   response, fs, created, converts, removes>>

\* Variant of MustRemove that cleans up on the success path only.
MustRemoveOnSuccess(r) ==
    /\ temp_file_path[r] # None
    /\ Exists(temp_file_path[r])
    /\ pending[r].status = 200

\* Line 237: whether the finally block reaches os.remove.
MustRemove(r) == temp_file_path[r] # None /\ Exists(temp_file_path[r])

\* Lines 235-239, os.remove succeeds or is not reached: the decided response
\* is returned.
Finally(r) ==
    /\ pc[r] = "finally"
    /\ IF MustRemove(r)
       THEN /\ fs' = FsRemove(temp_file_path[r])
            /\ removes' = [removes EXCEPT ![r] = @ + 1]
       ELSE UNCHANGED <<fs, removes>>
    /\ response' = [response EXCEPT ![r] = pending[r]]
    /\ pc' = [pc EXCEPT ![r] = "done"]
    /\ UNCHANGED <<rate_limit_enabled, file, client, prior, hits, temp_file_path,
                   pending, created, converts>>

\* Lines 237-238: os.remove raises inside the finally block. The exception
\* replaces the pending return and leaves process_file; the file stays.
FinallyRemoveFail(r) ==
    /\ pc[r] = "finally"
    /\ MustRemove(r)
    /\ removes' = [removes EXCEPT ![r] = @ + 1]
    /\ pc' = [pc EXCEPT ![r] = "raised"]
    /\ UNCHANGED <<rate_limit_enabled, file, client, prior, hits, temp_file_path,
                   pending, response, fs, created, converts>>

Step(r) ==
    \/ ValidateName(r)
    \/ ReadBody(r)
    \/ ReadFail(r)
    \/ CreateTemp(r)
    \/ CreateFail(r)
    \/ WriteTemp(r)
    \/ WriteFail(r)
    \/ CloseFail(r)
    \/ ConvertCall(r)
    \/ ConvertReturn(r)
    \/ ConvertRaise(r)
    \/ Finally(r)
    \/ FinallyRemoveFail(r)

\* Concurrent requests, one upload name per validation case.
Next == \E r \in Requests : Arrive(r, FewUploadNames) \/ Step(r)

Spec == Init /\ [][Next]_vars

\* One request, every upload name up to MaxNameLen.
NextV == Arrive(1, AllUploadNames) \/ Step(1)

SpecV == Init /\ [][NextV]_vars

\* ------------------------------------------------------------- properties
\* Request r has returned a response / has been left by an exception.
Returned(r) == pc[r] = "done"
Escaped(r) == pc[r] = "raised"

\* A temp file that request r created is on disk.
Leftover(r) == \E p \in DOMAIN fs : fs[p].owner = r

\* The validation rules of the upload, stated on the name and the size.
HasAllowedExtension(f) ==
    /\ f.has_filename
    /\ \E i \in 1..Len(f.filename) :
         /\ f.filename[i] = "."
         /\ \A j \in (i+1)..Len(f.filename) : f.filename[j] # "."
         /\ Lower(SubSeq(f.filename, i + 1, Len(f.filename))) \in ALLOWED_EXTENSIONS

PassesValidation(f) ==
    HasAllowedExtension(f) /\ 0 < f.size /\ f.size <= MAX_FILE_SIZE

\* C1: when process_file returns its response after convert_to_md returned
\* (200) or raised (500), the request has created exactly one temp file and
\* that file no longer exists.
C1_TempFileGoneOnReturn ==
    \A r \in Requests :
        (Returned(r) /\ response[r].body \in {"markdown", "convert error"}) =>
            /\ PassesValidation(file[r])
            /\ response[r].status = (IF response[r].body = "markdown" THEN 200 ELSE 500)
            /\ Cardinality(created[r]) = 1
            /\ ~Leftover(r)

C1_Witness ==
    \E r \in Requests :
        /\ Returned(r)
        /\ response[r] = JSONResponse(500, "convert error")
        /\ Cardinality(created[r]) = 1
        /\ removes[r] = 1
        /\ ~Leftover(r)

\* C2: in no end state of a request does a temp file created by that request
\* remain on disk, also when the write into the temp file failed.
C2_NoLeakOnReturn ==
    \A r \in Requests : Returned(r) => ~Leftover(r)

\* C3: a temp file exists or the converter has been invoked for a request
\* only if its upload passes every validation rule, and a request answered
\* 400 or 413 never created a temp file nor invoked the converter.
C3_ValidationFirst ==
    \A r \in Requests :
        /\ (created[r] # {} \/ Leftover(r) \/ converts[r] > 0) => PassesValidation(file[r])
        /\ (Returned(r) /\ response[r].status \in {400, 413}) =>
               (created[r] = {} /\ converts[r] = 0)

C3_Witness ==
    \E r \in Requests :
        /\ pc[r] = "converting"
        /\ Leftover(r)
        /\ file[r].size = MAX_FILE_SIZE
        /\ \E i \in 1..Len(file[r].filename) : file[r].filename[i] = "T"

\* The response the validation rules prescribe, first failing rule first;
\* NoResponse when no rule fails.
Rejection(f) ==
    IF ~f.has_filename \/ Len(f.filename) = 0 THEN JSONResponse(400, "Filename is required")
    ELSE IF ~HasAllowedExtension(f) THEN JSONResponse(400, "File type not allowed")
    ELSE IF f.size > MAX_FILE_SIZE THEN JSONResponse(413, "File too large")
    ELSE IF f.size = 0 THEN JSONResponse(400, "File is empty")
    ELSE NoResponse

\* C4: the response to an upload whose body was read is the one of the first
\* failing rule in the order filename, extension, size, emptiness; when no
\* rule fails (as for an allowed extension and exactly MAX_FILE_SIZE bytes)
\* the response is neither 400 nor 413.
C4_FirstFailingRule ==
    \A r \in Requests :
        (Returned(r) /\ response[r].body # "read error") =>
            IF Rejection(file[r]) # NoResponse
            THEN response[r] = Rejection(file[r])
            ELSE response[r].status \notin {400, 413}

C4_Witness ==
    \E r \in Requests :
        /\ Returned(r)
        /\ file[r].size = MAX_FILE_SIZE
        /\ \E i \in 1..Len(file[r].filename) : file[r].filename[i] = "T"
        /\ response[r] = JSONResponse(200, "markdown")

\* C5: no exception escapes process_file, and every failure response is a
\* JSON error with status 400, 413, 429 or 500.
C5_NoEscape ==
    \A r \in Requests :
        /\ ~Escaped(r)
        /\ (Returned(r) /\ response[r].body # "markdown") =>
               response[r].status \in {400, 413, 429, 500}

\* C6: once the converter has returned or raised, the response decided then
\* (200 with the markdown, 500 with the error text) is what the client
\* receives, whether or not os.remove fails.
C6_CleanupKeepsResponse ==
    \A r \in Requests :
        (converts[r] > 0 /\ pc[r] \in {"done", "raised"}) =>
            /\ response[r] = pending[r]
            /\ response[r] \in {JSONResponse(200, "markdown"), JSONResponse(500, "convert error")}

\* C7: with rate limiting enabled at RateLimitN requests per window, a request
\* of a client that already made RateLimitN requests is answered 429 and the
\* handler body does not run for it: it gets no further than being routed.
C7_RateLimited ==
    \A r \in Requests :
        (rate_limit_enabled /\ pc[r] # "idle" /\ prior[r] >= RateLimitN) =>
            /\ pc[r] \in {"validate", "done"}
            /\ Returned(r) => response[r].status = 429
            /\ created[r] = {}
            /\ converts[r] = 0

\* C8: a request's temp file stays on disk, as its own, until its converter
\* invocation has finished, and once every request has returned no temp file
\* remains.
C8_OwnFileOnly ==
    /\ \A r \in Requests :
           pc[r] \in {"convert", "converting"} =>
               /\ Exists(temp_file_path[r])
               /\ fs[temp_file_path[r]].owner = r
    /\ (\A r \in Requests : pc[r] \in {"idle", "done"}) => DOMAIN fs = {}

\* C10: the converter is invoked at most once per request, only while the
\* temp file holds the upload's bytes and has not been deleted, and os.remove
\* is executed exactly once for each temp file the request created.
C10_OnceEach ==
    \A r \in Requests :
        /\ converts[r] <= 1
        /\ pc[r] = "converting" =>
               /\ Exists(temp_file_path[r])
               /\ fs[temp_file_path[r]].bytes = file[r].size
               /\ removes[r] = 0
        /\ removes[r] <= Cardinality(created[r])
        /\ Returned(r) => removes[r] = Cardinality(created[r])

\* C9: the temp file of an accepted upload has the suffix "." followed by
\* what follows the last "." of the file name.
C9_SuffixIsExtension ==
    \A r \in Requests : \A p \in created[r] :
        p.suffix = <<".">> \o RSplitLast(file[r].filename, ".")

====
